---- MODULE Spec2Model ----
(***************************************************************************)
(* MangaParty: the entity store (class-table inheritance over mp_res and   *)
(* its layer tables), the relationship table mp_relationship, the sqlc     *)
(* queries over them and the transactional HTTP handlers.                  *)
(*                                                                         *)
(* The committed database is `db`; every handler that runs inside          *)
(* pool.Begin .. tx.Commit owns a private set of pending rows `tx[p]`      *)
(* (read-committed isolation: other connections read `db` only).           *)
(***************************************************************************)
EXTENDS Integers, Sequences, FiniteSets, TLC

\* ------------------------------------------------------------------ bounds
\* Number of mp_res identities uuid_generate_v4() may hand out in a run.
MaxIds == 2
\* Number of mp_relationship identities uuid_generate_v4() may hand out.
MaxEdges == 2

\* Number of times the database clock is seen to advance in a run.
MaxTime == 1

\* Concurrent request goroutines (net/http serves each request on its own).
Procs == {"g1", "g2"}

\* ------------------------------------------------------------- type registry
\* CREATE TYPE mp_entity_type
EntityTypes ==
  {"res", "work", "expression", "manifestation", "item", "agent", "person",
   "collective_agent", "nomen", "place", "time_span", "language",
   "content_rating", "type", "status", "tag", "digital_resource", "image",
   "link", "rss_feed", "file"}

\* The layer table of each kind ("res" has the root table only).
Tables ==
  {"mp_res", "mp_work", "mp_expression", "mp_manifestation", "mp_item",
   "mp_agent", "mp_person", "mp_collective_agent", "mp_nomen", "mp_place",
   "mp_time_span", "mp_language", "mp_content_rating", "mp_type", "mp_status",
   "mp_tag", "mp_digital_resource", "mp_image", "mp_link", "mp_rss_feed",
   "mp_file", "mp_relationship"}

LayerTables == Tables \ {"mp_res", "mp_relationship"}

\* kind -> the table holding its most specialized layer
TableOf ==
  [k \in EntityTypes |->
     CASE k = "res" -> "mp_res"
       [] k = "work" -> "mp_work"
       [] k = "expression" -> "mp_expression"
       [] k = "manifestation" -> "mp_manifestation"
       [] k = "item" -> "mp_item"
       [] k = "agent" -> "mp_agent"
       [] k = "person" -> "mp_person"
       [] k = "collective_agent" -> "mp_collective_agent"
       [] k = "nomen" -> "mp_nomen"
       [] k = "place" -> "mp_place"
       [] k = "time_span" -> "mp_time_span"
       [] k = "language" -> "mp_language"
       [] k = "content_rating" -> "mp_content_rating"
       [] k = "type" -> "mp_type"
       [] k = "status" -> "mp_status"
       [] k = "tag" -> "mp_tag"
       [] k = "digital_resource" -> "mp_digital_resource"
       [] k = "image" -> "mp_image"
       [] k = "link" -> "mp_link"
       [] k = "rss_feed" -> "mp_rss_feed"
       [] k = "file" -> "mp_file"]

\* Mutant: mp_relationship.target_id declared without REFERENCES mp_res.
ForeignKeysNoTarget ==
  {[table |-> t, column |-> "id", references |-> "mp_res"] :
      t \in {"mp_work", "mp_expression", "mp_manifestation", "mp_item",
             "mp_agent", "mp_nomen", "mp_place", "mp_time_span", "mp_language",
             "mp_content_rating", "mp_type", "mp_status", "mp_tag",
             "mp_digital_resource"}}
  \cup {[table |-> t, column |-> "id", references |-> "mp_agent"] :
      t \in {"mp_person", "mp_collective_agent"}}
  \cup {[table |-> t, column |-> "id", references |-> "mp_digital_resource"] :
      t \in {"mp_image", "mp_link", "mp_rss_feed", "mp_file"}}
  \cup {[table |-> "mp_relationship", column |-> "source_id",
         references |-> "mp_res"]}

\* Every REFERENCES clause of the schema; each one is ON DELETE CASCADE.
ForeignKeys ==
  {[table |-> t, column |-> "id", references |-> "mp_res"] :
      t \in {"mp_work", "mp_expression", "mp_manifestation", "mp_item",
             "mp_agent", "mp_nomen", "mp_place", "mp_time_span", "mp_language",
             "mp_content_rating", "mp_type", "mp_status", "mp_tag",
             "mp_digital_resource"}}
  \cup {[table |-> t, column |-> "id", references |-> "mp_agent"] :
      t \in {"mp_person", "mp_collective_agent"}}
  \cup {[table |-> t, column |-> "id", references |-> "mp_digital_resource"] :
      t \in {"mp_image", "mp_link", "mp_rss_feed", "mp_file"}}
  \cup {[table |-> "mp_relationship", column |-> c, references |-> "mp_res"] :
      c \in {"source_id", "target_id"}}

\* The table a layer table extends (its primary key's REFERENCES target).
ParentTable(t) ==
  (CHOOSE fk \in ForeignKeys : fk.table = t /\ fk.column = "id").references

\* layersFor(kind): the layer tables of a kind, least specialized first.
LayersFor(k) ==
  IF k = "res" THEN <<>>
  ELSE IF ParentTable(TableOf[k]) = "mp_res" THEN <<TableOf[k]>>
  ELSE <<ParentTable(TableOf[k]), TableOf[k]>>

\* The kind a kind specializes ("res" is the root and has none).
KindOfTable(t) == CHOOSE k \in EntityTypes : TableOf[k] = t
ParentKind(k) == KindOfTable(ParentTable(TableOf[k]))

\* k is kind `general` or one of its specializations.
RECURSIVE IsA(_, _)
IsA(k, general) ==
  \/ k = general
  \/ general = "res"
  \/ k # "res" /\ IsA(ParentKind(k), general)

\* CREATE TYPE mp_relationship_type
RelationshipTypes ==
  {"MP_R1", "MP_R2", "MP_R3", "MP_R4", "MP_R5", "MP_R6", "MP_R7", "MP_R8",
   "MP_R9", "MP_R10", "MP_R11", "MP_R12", "MP_R13", "MP_R14", "MP_R15",
   "MP_R16", "MP_R17", "MP_R18", "MP_R19", "MP_R20", "MP_R21", "MP_R22",
   "MP_R23", "MP_R24", "MP_R25", "MP_R26", "MP_R27", "MP_R28", "MP_R29",
   "MP_R30", "MP_R31", "MP_R32", "MP_R33", "MP_R34", "MP_R35", "MP_R36",
   "MP_R37", "MP_R38", "MP_R39", "MP_R40"}

\* The (source kind, target kind) pair the schema documents for each
\* relationship type, e.g. 'MP_R5' -- Work was created by Agent.
AllowedEndpointKinds ==
  [r \in RelationshipTypes |->
     CASE r = "MP_R1" -> <<"res", "res">>
       [] r = "MP_R2" -> <<"work", "expression">>
       [] r = "MP_R3" -> <<"expression", "manifestation">>
       [] r = "MP_R4" -> <<"manifestation", "item">>
       [] r = "MP_R5" -> <<"work", "agent">>
       [] r = "MP_R6" -> <<"expression", "agent">>
       [] r \in {"MP_R7", "MP_R8", "MP_R9"} -> <<"manifestation", "agent">>
       [] r \in {"MP_R10", "MP_R11"} -> <<"item", "agent">>
       [] r = "MP_R12" -> <<"work", "res">>
       [] r = "MP_R13" -> <<"res", "nomen">>
       [] r = "MP_R14" -> <<"agent", "nomen">>
       [] r \in {"MP_R15", "MP_R16", "MP_R17"} -> <<"nomen", "nomen">>
       [] r \in {"MP_R18", "MP_R19", "MP_R20", "MP_R21", "MP_R22"} ->
            <<"work", "work">>
       [] r \in {"MP_R23", "MP_R24", "MP_R25"} -> <<"expression", "expression">>
       [] r \in {"MP_R26", "MP_R27", "MP_R29"} ->
            <<"manifestation", "manifestation">>
       [] r = "MP_R28" -> <<"item", "manifestation">>
       [] r = "MP_R30" -> <<"agent", "collective_agent">>
       [] r \in {"MP_R31", "MP_R32"} ->
            <<"collective_agent", "collective_agent">>
       [] r = "MP_R33" -> <<"res", "place">>
       [] r = "MP_R34" -> <<"place", "place">>
       [] r = "MP_R35" -> <<"res", "time_span">>
       [] r = "MP_R36" -> <<"time_span", "time_span">>
       [] r = "MP_R37" -> <<"res", "tag">>
       [] r = "MP_R38" -> <<"res", "digital_resource">>
       [] r = "MP_R39" -> <<"res", "language">>
       [] r = "MP_R40" -> <<"res", "content_rating">>]

\* ------------------------------------------------------------------ storage
\* A store maps every table to its set of rows; a row is a record keyed by id.
EmptyStore == [t \in Tables |-> {}]

\* The rows a statement run on `overlay` of a transaction sees: the committed
\* rows and the transaction's own pending rows.
Union(store, overlay) == [t \in Tables |-> store[t] \cup overlay[t]]

\* Mutant: idx_mp_relationship_composite declared UNIQUE, so a second edge
\* with the same (source_id, rel_type, target_id) is rejected.
PrimaryKeyOkUniqueEdge(view, t, row) ==
  /\ \A r \in view[t] : r.id # row.id
  /\ t = "mp_relationship" =>
        \A r \in view[t] : ~(/\ r.source_id = row.source_id
                              /\ r.rel_type = row.rel_type
                              /\ r.target_id = row.target_id)

\* PRIMARY KEY: no visible row of the table has the new row's id.
PrimaryKeyOk(view, t, row) == \A r \in view[t] : r.id # row.id

\* REFERENCES: every foreign-key column of the new row names a visible row of
\* the referenced table.
ForeignKeysOk(view, t, row) ==
  \A fk \in ForeignKeys :
     fk.table = t => \E r \in view[fk.references] : r.id = row[fk.column]

\* Mutant: the cascade stops at the tables that reference `from` directly
\* (the second-level references lack ON DELETE CASCADE).
DoomedIdsOneLevel(store, t, from, ids) ==
  IF t = from
  THEN {r.id : r \in {x \in store[t] : x.id \in ids}}
  ELSE UNION {{r.id : r \in {x \in store[t] : x[fk.column] \in ids}} :
              fk \in {f \in ForeignKeys : f.table = t /\ f.references = from}}

\* Mutant: mp_person, mp_collective_agent, mp_image, mp_link, mp_rss_feed and
\* mp_file declare id UUID PRIMARY KEY with no REFERENCES clause, so only the
\* references to mp_res cascade.
DoomedIdsRootReferencesOnly(store, t, from, ids) ==
  IF t = from
  THEN {r.id : r \in {x \in store[t] : x.id \in ids}}
  ELSE UNION {{r.id : r \in {x \in store[t] : x[fk.column] \in ids}} :
              fk \in {f \in ForeignKeys :
                        f.table = t /\ f.references = from /\ from = "mp_res"}}

\* The ids of the rows of table t that a DELETE of `ids` from table `from`
\* removes: the named rows themselves and, through every ON DELETE CASCADE
\* reference, the rows that reference a removed row.
RECURSIVE DoomedIds(_, _, _, _)
DoomedIds(store, t, from, ids) ==
  IF t = from
  THEN {r.id : r \in {x \in store[t] : x.id \in ids}}
  ELSE UNION {{r.id : r \in {x \in store[t] :
                       x[fk.column] \in DoomedIds(store, fk.references, from, ids)}} :
              fk \in {f \in ForeignKeys : f.table = t}}

\* Mutant: the references are declared without ON DELETE CASCADE and the
\* delete removes the named rows only.
DeleteNamedRowsOnly(store, from, ids) ==
  [store EXCEPT ![from] = {r \in @ : r.id \notin ids}]

\* Mutant: the DELETE on mp_relationship matches source_id as well as id, so
\* it also removes the edges leaving the entity that has the same identity.
DeleteCascadeBySource(store, from, ids) ==
  [t \in Tables |->
     {r \in store[t] :
        /\ r.id \notin DoomedIds(store, t, from, ids)
        /\ (t = "mp_relationship" /\ from = t) => r.source_id \notin ids}]

\* DELETE FROM `from` WHERE id IN ids, with the schema's cascades.
DeleteCascade(store, from, ids) ==
  [t \in Tables |-> {r \in store[t] : r.id \notin DoomedIds(store, t, from, ids)}]

\* Mutant: only the root insert is part of what the commit publishes.
CommitRootOnly(store, pending) ==
  [store EXCEPT !["mp_res"] = @ \cup pending["mp_res"]]

\* tx.Commit: every pending row becomes committed at once.
Commit(store, pending) == Union(store, pending)

\* Mutant: CreateRes ran on s.queries instead of qtx, so the root row is
\* already committed when the transaction rolls back.
RollbackKeepsRoot(store, pending) ==
  [store EXCEPT !["mp_res"] = @ \cup pending["mp_res"]]

\* tx.Rollback (the deferred call on every early return): the pending rows are
\* dropped and the committed store is what it was.
Rollback(store, pending) == store

\* ---------------------------------------------------------------- JSONB
\* A JSON object text is the sequence of its members as written:
\* [k |-> key, v |-> value]. Keys are ordered by KeyRank.
JsonKeys == {"a", "b"}
KeyRank == [k \in JsonKeys |-> IF k = "a" THEN 1 ELSE 2]

\* The value jsonb keeps for key k: the last member written with that key.
LastValue(text, k) ==
  text[CHOOSE i \in 1..Len(text) :
         /\ text[i].k = k
         /\ \A j \in (i+1)..Len(text) : text[j].k # k].v

\* The keys of a text in jsonb's storage order.
RECURSIVE SortedKeys(_)
SortedKeys(keys) ==
  IF keys = {} THEN <<>>
  ELSE LET m == CHOOSE k \in keys : \A o \in keys : KeyRank[k] <= KeyRank[o]
       IN <<m>> \o SortedKeys(keys \ {m})

\* Input conversion of the JSONB column representative_attributes: duplicate
\* keys collapse to the last one written and members are stored in key order.
JsonbIn(text) ==
  LET keys == SortedKeys({text[i].k : i \in 1..Len(text)})
  IN [i \in 1..Len(keys) |-> [k |-> keys[i], v |-> LastValue(text, keys[i])]]

\* The JSON value a text denotes: its members as a key -> value map.
JsonValue(text) ==
  [k \in {text[i].k : i \in 1..Len(text)} |-> LastValue(text, k)]

\* --------------------------------------------------------------- requests
\* Decoded bodies of POST /api/person (CreatePersonRequest).
PersonRequests ==
  {[note |-> <<"n1">>, contact_info |-> <<"c1">>, field_of_activity |-> <<"f1">>,
    language |-> <<"ja">>, profession |-> <<"illustrator">>]}

\* Decoded bodies of POST /api/work (CreateWorkRequest).
WorkRequests ==
  {[note |-> <<"n2">>, category |-> <<"manga">>,
    representative_attributes |->
      <<[k |-> "b", v |-> 1], [k |-> "a", v |-> 2], [k |-> "a", v |-> 3]>>]}

\* A body json.NewDecoder(r.Body).Decode rejects.
InvalidBody == [invalid |-> TRUE]

\* pgtype.Timestamptz: SQL NULL is Valid = FALSE.
NullTime == [Valid |-> FALSE, Time |-> 0]
TimeAt(t) == [Valid |-> TRUE, Time |-> t]

\* ---------------------------------------------------------------- queries
\* Mutant: every handler passes EntityType = MpEntityTypeWork.
CreateResRowAlwaysWork(id, kind, note, at) ==
  [id |-> id, entity_type |-> "work", note |-> note,
   created_at |-> TimeAt(at), updated_at |-> NullTime]

\* CreateRes: INSERT INTO mp_res (entity_type, note) ... RETURNING id, created_at.
\* id and created_at come from the column defaults, updated_at stays NULL.
CreateResRow(id, kind, note, at) ==
  [id |-> id, entity_type |-> kind, note |-> note,
   created_at |-> TimeAt(at), updated_at |-> NullTime]

\* Mutant: ContactInfo and Language exchanged in CreateAgentParams.
CreateAgentRowSwapped(id, r) ==
  [id |-> id, contact_info |-> r.language,
   field_of_activity |-> r.field_of_activity, language |-> r.contact_info]

\* CreateAgent: INSERT INTO mp_agent (id, contact_info, field_of_activity, language)
CreateAgentRow(id, r) ==
  [id |-> id, contact_info |-> r.contact_info,
   field_of_activity |-> r.field_of_activity, language |-> r.language]

\* CreatePerson: INSERT INTO mp_person (id, profession)
CreatePersonRow(id, r) == [id |-> id, profession |-> r.profession]

\* CreateWork: INSERT INTO mp_work (id, category, representative_attributes)
CreateWorkRow(id, r) ==
  [id |-> id, category |-> r.category,
   representative_attributes |-> JsonbIn(r.representative_attributes)]

\* Mutant: $1 and $2 exchanged in the INSERT.
CreateRelationshipRowSwapped(id, source, target, relType, note) ==
  [id |-> id, source_id |-> target, target_id |-> source, rel_type |-> relType,
   start_date |-> NullTime, end_date |-> NullTime, note |-> note]

\* CreateRelationship: INSERT INTO mp_relationship (source_id, target_id,
\* rel_type, note); start_date and end_date are not set by the query.
CreateRelationshipRow(id, source, target, relType, note) ==
  [id |-> id, source_id |-> source, target_id |-> target, rel_type |-> relType,
   start_date |-> NullTime, end_date |-> NullTime, note |-> note]

\* GetPerson: mp_res JOIN mp_agent JOIN mp_person WHERE r.id = $1.
GetPerson(store, id) ==
  {[id |-> r.id, entity_type |-> r.entity_type, note |-> r.note,
    created_at |-> r.created_at, updated_at |-> r.updated_at,
    contact_info |-> a.contact_info, field_of_activity |-> a.field_of_activity,
    language |-> a.language, profession |-> q.profession] :
     <<r, a, q>> \in {x \in store["mp_res"] \X store["mp_agent"] \X store["mp_person"] :
                       x[1].id = x[2].id /\ x[2].id = x[3].id /\ x[1].id = id}}

\* ListPeople: the same join without the WHERE clause.
ListPeople(store) ==
  UNION {GetPerson(store, r.id) : r \in store["mp_res"]}

\* GetWork: mp_res JOIN mp_work WHERE r.id = $1 (updated_at is not selected).
GetWork(store, id) ==
  {[id |-> r.id, entity_type |-> r.entity_type, note |-> r.note,
    created_at |-> r.created_at, category |-> w.category,
    representative_attributes |-> w.representative_attributes] :
     <<r, w>> \in {x \in store["mp_res"] \X store["mp_work"] :
                    x[1].id = x[2].id /\ x[1].id = id}}

\* ListWorks: the same join without the WHERE clause.
ListWorks(store) ==
  UNION {GetWork(store, r.id) : r \in store["mp_res"]}

\* ORDER BY created_at DESC: the sequences a :many query may return for a set
\* of result rows. Every row once, later created_at first; the order of rows
\* with equal created_at is left to the planner, so each is a possible result.
OrderByCreatedAtDesc(rows) ==
  {s \in [1..Cardinality(rows) -> rows] :
     /\ \A i \in DOMAIN s : \A j \in DOMAIN s : s[i] = s[j] => i = j
     /\ \A i \in DOMAIN s : \A j \in DOMAIN s :
           i < j => s[i].created_at.Time >= s[j].created_at.Time}

\* handleListPeople / handleListWorks: the slices the queries can hand to the
\* template, in order.
ListPeopleResults(store) == OrderByCreatedAtDesc(ListPeople(store))
ListWorksResults(store) == OrderByCreatedAtDesc(ListWorks(store))

\* ListRes: SELECT ... FROM mp_res (the root listing).
ListRes(store) == store["mp_res"]

\* Mutant: the join runs the other way, JOIN mp_res r ON rel.target_id = r.id
\* WHERE rel.source_id = $1.
GetWorksByCreatorFromSource(store, agentId) ==
  {[edge |-> rel.id, row |-> w] :
     <<rel, w>> \in {x \in store["mp_relationship"] \X ListWorks(store) :
                      /\ x[1].target_id = x[2].id
                      /\ x[1].source_id = agentId
                      /\ x[1].rel_type = "MP_R5"}}

\* GetWorksByCreator: mp_relationship JOIN mp_res ON source JOIN mp_work
\* WHERE target_id = $1 AND rel_type = 'MP_R5'. One result row per edge; `edge`
\* tells the occurrences apart and is not a selected column.
GetWorksByCreator(store, agentId) ==
  {[edge |-> rel.id, row |-> w] :
     <<rel, w>> \in {x \in store["mp_relationship"] \X ListWorks(store) :
                      /\ x[1].source_id = x[2].id
                      /\ x[1].target_id = agentId
                      /\ x[1].rel_type = "MP_R5"}}

\* Traverse(anchor, relType, direction): the far endpoints of the anchored edges.
Traverse(store, anchor, relType, direction) ==
  IF direction = "outbound"
  THEN {e.target_id : e \in {x \in store["mp_relationship"] :
                               x.source_id = anchor /\ x.rel_type = relType}}
  ELSE {e.source_id : e \in {x \in store["mp_relationship"] :
                               x.target_id = anchor /\ x.rel_type = relType}}

\* ------------------------------------------------------------------ state
VARIABLES
  db,        \* the committed store
  tx,        \* tx[p]: rows inserted by p's open transaction, not yet committed
  pc,        \* pc[p]: the statement p's handler executed last
  req,       \* req[p]: the decoded request body p is serving
  res,       \* res[p]: the id CreateRes returned to p (0: none yet)
  txStart,   \* txStart[p]: now() of p's transaction
  nextId,    \* the next identity uuid_generate_v4() gives mp_res
  nextEdge,  \* the next identity uuid_generate_v4() gives mp_relationship
  now,       \* the database clock
  last       \* the response sent last, to any caller

vars == <<db, tx, pc, req, res, txStart, nextId, nextEdge, now, last>>

NoRequest == [none |-> TRUE]

\* Identities a caller may name.
Ids == 1..MaxIds
EdgeIds == 1..MaxEdges

\* Relationship types the callers of the model use.
RelInputs == {"MP_R5", "MP_R18"}

\* The tables an operation removed rows from.
RemovedFrom(before, after) == {t \in Tables : before[t] \ after[t] # {}}

\* The operation completed last: its name, arguments, result and, for a
\* delete, the tables it removed rows from.
Response(op, status, id, source, target, relType, removed) ==
  [op |-> op, status |-> status, id |-> id,
   source |-> source, target |-> target, rel |-> relType, removed |-> removed]

Reply(op, status, id) == Response(op, status, id, 0, 0, "", {})

Init ==
  /\ db = EmptyStore
  /\ tx = [p \in Procs |-> EmptyStore]
  /\ pc = [p \in Procs |-> "idle"]
  /\ req = [p \in Procs |-> NoRequest]
  /\ res = [p \in Procs |-> 0]
  /\ txStart = [p \in Procs |-> 0]
  /\ nextId = 1
  /\ nextEdge = 1
  /\ now = 0
  /\ last = Reply("none", "", 0)

\* ------------------------------------------------------ handler plumbing
\* The handler returns: the goroutine is free for the next request.
Finish(p) ==
  /\ tx' = [tx EXCEPT ![p] = EmptyStore]
  /\ pc' = [pc EXCEPT ![p] = "idle"]
  /\ req' = [req EXCEPT ![p] = NoRequest]
  /\ res' = [res EXCEPT ![p] = 0]
  /\ txStart' = [txStart EXCEPT ![p] = 0]

\* An early return after pool.Begin: http.Error(500) and the deferred
\* tx.Rollback. Taken when a statement or the commit returns an error, which
\* includes the request context being cancelled under it.
Fail(p, op) ==
  /\ db' = Rollback(db, tx[p])
  /\ last' = Reply(op, "500", res[p])
  /\ Finish(p)
  /\ UNCHANGED <<nextId, nextEdge, now>>

\* Mutant: one transaction kept in the Server struct and shared by all
\* requests, so an insert lands in every open transaction.
InsertTxShared(p, t, row) ==
  /\ PrimaryKeyOk(Union(db, tx[p]), t, row)
  /\ ForeignKeysOk(Union(db, tx[p]), t, row)
  /\ tx' = [q \in Procs |->
             IF q = p \/ pc[q] # "idle"
             THEN [tx[q] EXCEPT ![t] = @ \cup {row}] ELSE tx[q]]

\* One INSERT run through qtx: it sees the committed rows and the
\* transaction's own, and adds the row to the transaction when the table's
\* constraints accept it.
InsertTx(p, t, row) ==
  /\ PrimaryKeyOk(Union(db, tx[p]), t, row)
  /\ ForeignKeysOk(Union(db, tx[p]), t, row)
  /\ tx' = [tx EXCEPT ![p][t] = @ \cup {row}]

\* --------------------------------------------------- handleCreatePerson
\* Decode the body and begin the transaction.
CreatePersonBegin(p) ==
  /\ pc[p] = "idle"
  /\ \E body \in PersonRequests \cup {InvalidBody} :
       \/ /\ body = InvalidBody
          /\ last' = Reply("handleCreatePerson", "400", 0)
          /\ UNCHANGED <<db, tx, pc, req, res, txStart, nextId, nextEdge, now>>
       \/ /\ body # InvalidBody
          /\ last' = Reply("handleCreatePerson", "500", 0)
          /\ UNCHANGED <<db, tx, pc, req, res, txStart, nextId, nextEdge, now>>
       \/ /\ body # InvalidBody
          /\ pc' = [pc EXCEPT ![p] = "cp_begun"]
          /\ req' = [req EXCEPT ![p] = body]
          /\ txStart' = [txStart EXCEPT ![p] = now]
          /\ UNCHANGED <<db, tx, res, nextId, nextEdge, now, last>>

\* Mutant: the handler drops the row CreateRes returns (res, err := ... with
\* res never read), so the layers are keyed by the zero identity.
CreatePersonResDropsId(p) ==
  /\ pc[p] = "cp_begun"
  /\ \/ /\ nextId <= MaxIds
        /\ InsertTx(p, "mp_res",
                    CreateResRow(nextId, "person", req[p].note, txStart[p]))
        /\ nextId' = nextId + 1
        /\ pc' = [pc EXCEPT ![p] = "cp_res"]
        /\ UNCHANGED <<db, req, res, txStart, nextEdge, now, last>>
     \/ Fail(p, "handleCreatePerson")

\* Step 1: qtx.CreateRes with EntityType = MpEntityTypePerson.
CreatePersonRes(p) ==
  /\ pc[p] = "cp_begun"
  /\ \/ /\ nextId <= MaxIds
        /\ InsertTx(p, "mp_res",
                    CreateResRow(nextId, "person", req[p].note, txStart[p]))
        /\ res' = [res EXCEPT ![p] = nextId]
        /\ nextId' = nextId + 1
        /\ pc' = [pc EXCEPT ![p] = "cp_res"]
        /\ UNCHANGED <<db, req, txStart, nextEdge, now, last>>
     \/ Fail(p, "handleCreatePerson")

\* Step 2: qtx.CreateAgent with ID = res.ID.
CreatePersonAgent(p) ==
  /\ pc[p] = "cp_res"
  /\ \/ /\ InsertTx(p, "mp_agent", CreateAgentRow(res[p], req[p]))
        /\ pc' = [pc EXCEPT ![p] = "cp_agent"]
        /\ UNCHANGED <<db, req, res, txStart, nextId, nextEdge, now, last>>
     \/ Fail(p, "handleCreatePerson")

\* Step 3: qtx.CreatePerson with ID = res.ID.
CreatePersonPerson(p) ==
  /\ pc[p] = "cp_agent"
  /\ \/ /\ InsertTx(p, "mp_person", CreatePersonRow(res[p], req[p]))
        /\ pc' = [pc EXCEPT ![p] = "cp_person"]
        /\ UNCHANGED <<db, req, res, txStart, nextId, nextEdge, now, last>>
     \/ Fail(p, "handleCreatePerson")

\* tx.Commit, then 201 {"id": res.ID, "status": "created"}.
\* Mutant: the handler writes the 201 before it calls tx.Commit, so the
\* created response is out when the commit fails.
CreatePersonCommitRepliesFirst(p) ==
  /\ pc[p] = "cp_person"
  /\ \/ /\ db' = Commit(db, tx[p])
        /\ last' = Reply("handleCreatePerson", "201", res[p])
        /\ Finish(p)
        /\ UNCHANGED <<nextId, nextEdge, now>>
     \/ /\ db' = Rollback(db, tx[p])
        /\ last' = Reply("handleCreatePerson", "201", res[p])
        /\ Finish(p)
        /\ UNCHANGED <<nextId, nextEdge, now>>

CreatePersonCommit(p) ==
  /\ pc[p] = "cp_person"
  /\ \/ /\ db' = Commit(db, tx[p])
        /\ last' = Reply("handleCreatePerson", "201", res[p])
        /\ Finish(p)
        /\ UNCHANGED <<nextId, nextEdge, now>>
     \/ Fail(p, "handleCreatePerson")

\* ----------------------------------------------------- handleCreateWork
CreateWorkBegin(p) ==
  /\ pc[p] = "idle"
  /\ \E body \in WorkRequests \cup {InvalidBody} :
       \/ /\ body = InvalidBody
          /\ last' = Reply("handleCreateWork", "400", 0)
          /\ UNCHANGED <<db, tx, pc, req, res, txStart, nextId, nextEdge, now>>
       \/ /\ body # InvalidBody
          /\ last' = Reply("handleCreateWork", "500", 0)
          /\ UNCHANGED <<db, tx, pc, req, res, txStart, nextId, nextEdge, now>>
       \/ /\ body # InvalidBody
          /\ pc' = [pc EXCEPT ![p] = "cw_begun"]
          /\ req' = [req EXCEPT ![p] = body]
          /\ txStart' = [txStart EXCEPT ![p] = now]
          /\ UNCHANGED <<db, tx, res, nextId, nextEdge, now, last>>

\* Step 1: qtx.CreateRes with EntityType = MpEntityTypeWork.
CreateWorkRes(p) ==
  /\ pc[p] = "cw_begun"
  /\ \/ /\ nextId <= MaxIds
        /\ InsertTx(p, "mp_res",
                    CreateResRow(nextId, "work", req[p].note, txStart[p]))
        /\ res' = [res EXCEPT ![p] = nextId]
        /\ nextId' = nextId + 1
        /\ pc' = [pc EXCEPT ![p] = "cw_res"]
        /\ UNCHANGED <<db, req, txStart, nextEdge, now, last>>
     \/ Fail(p, "handleCreateWork")

\* Mutant: step 2 copied from handleCreatePerson: qtx.CreateAgent instead of
\* qtx.CreateWork.
CreateWorkWorkAsAgent(p) ==
  /\ pc[p] = "cw_res"
  /\ \/ /\ InsertTx(p, "mp_agent",
                    [id |-> res[p], contact_info |-> <<>>,
                     field_of_activity |-> <<>>, language |-> <<>>])
        /\ pc' = [pc EXCEPT ![p] = "cw_work"]
        /\ UNCHANGED <<db, req, res, txStart, nextId, nextEdge, now, last>>
     \/ Fail(p, "handleCreateWork")

\* Step 2: qtx.CreateWork with ID = res.ID.
CreateWorkWork(p) ==
  /\ pc[p] = "cw_res"
  /\ \/ /\ InsertTx(p, "mp_work", CreateWorkRow(res[p], req[p]))
        /\ pc' = [pc EXCEPT ![p] = "cw_work"]
        /\ UNCHANGED <<db, req, res, txStart, nextId, nextEdge, now, last>>
     \/ Fail(p, "handleCreateWork")

CreateWorkCommit(p) ==
  /\ pc[p] = "cw_work"
  /\ \/ /\ db' = Commit(db, tx[p])
        /\ last' = Reply("handleCreateWork", "201", res[p])
        /\ Finish(p)
        /\ UNCHANGED <<nextId, nextEdge, now>>
     \/ Fail(p, "handleCreateWork")

\* ------------------------------------------------------------- the routes
\* The kinds the mux has a create route for: "POST /api/person" and
\* "POST /api/work".
CreateRoutes == {"person", "work"}

\* Kind names callers put in the path of a create request; "manga_series" is
\* not a value of mp_entity_type, "expression" is one without a route.
KindInputs == {"person", "work", "expression", "manga_series"}

\* Mutant: a catch-all create handler that inserts the root row and commits
\* before it finds that it has no layer to write for the kind.
ServeUnroutedWritesRoot(kind) ==
  /\ kind \notin CreateRoutes
  /\ nextId <= MaxIds
  /\ db' = [db EXCEPT !["mp_res"] =
                @ \cup {CreateResRow(nextId, kind, <<>>, now)}]
  /\ nextId' = nextId + 1
  /\ last' = Reply("ServeMux", "404", 0)
  /\ UNCHANGED <<tx, pc, req, res, txStart, nextEdge, now>>

\* POST /api/{kind} with no pattern registered for it: http.ServeMux answers
\* 404 itself; no handler runs and no connection is taken from the pool.
ServeUnrouted(kind) ==
  /\ kind \notin CreateRoutes
  /\ last' = Reply("ServeMux", "404", 0)
  /\ UNCHANGED <<db, tx, pc, req, res, txStart, nextId, nextEdge, now>>

\* ------------------------------------------------------------ read paths
\* The read handlers run one query on the pool and change nothing: each is a
\* function of the committed store at the moment the query runs.

\* handleGetPerson: 404 on pgx "no rows in result set", else 200 with the row.
HandleGetPerson(store, id) ==
  IF GetPerson(store, id) = {}
  THEN [status |-> "404", body |-> {}]
  ELSE [status |-> "200", body |-> GetPerson(store, id)]

\* handleListPeople / handleListWorks: 200 with the rows of the query.
HandleListPeople(store) == [status |-> "200", body |-> ListPeople(store)]
HandleListWorks(store) == [status |-> "200", body |-> ListWorks(store)]

\* ---------------------------------------------------------- relationships
\* Mutant: the row is written before the references are checked and stays
\* when the check fails.
CreateRelationshipWriteFirst(source, target, relType) ==
  LET row == CreateRelationshipRow(nextEdge, source, target, relType, "")
  IN IF PrimaryKeyOk(db, "mp_relationship", row)
        /\ ForeignKeysOk(db, "mp_relationship", row)
     THEN /\ nextEdge <= MaxEdges
          /\ db' = [db EXCEPT !["mp_relationship"] = @ \cup {row}]
          /\ nextEdge' = nextEdge + 1
          /\ last' = Response("CreateRelationship", "ok", nextEdge,
                              source, target, relType, {})
          /\ UNCHANGED <<tx, pc, req, res, txStart, nextId, now>>
     ELSE /\ nextEdge <= MaxEdges
          /\ db' = [db EXCEPT !["mp_relationship"] = @ \cup {row}]
          /\ nextEdge' = nextEdge + 1
          /\ last' = Reply("CreateRelationship", "foreign_key_violation", 0)
          /\ UNCHANGED <<tx, pc, req, res, txStart, nextId, now>>

\* Mutant: an AFTER INSERT trigger on mp_relationship touches the source's
\* root row (an UPDATE of mp_res, which sets updated_at).
CreateRelationshipTouchesSource(source, target, relType) ==
  LET row == CreateRelationshipRow(nextEdge, source, target, relType, "")
  IN IF PrimaryKeyOk(db, "mp_relationship", row)
        /\ ForeignKeysOk(db, "mp_relationship", row)
     THEN /\ nextEdge <= MaxEdges
          /\ db' = [db EXCEPT
                      !["mp_relationship"] = @ \cup {row},
                      !["mp_res"] = {IF r.id = source
                                     THEN [r EXCEPT !.updated_at = TimeAt(now)]
                                     ELSE r : r \in @}]
          /\ nextEdge' = nextEdge + 1
          /\ last' = Response("CreateRelationship", "ok", nextEdge,
                              source, target, relType, {})
          /\ UNCHANGED <<tx, pc, req, res, txStart, nextId, now>>
     ELSE /\ last' = Reply("CreateRelationship", "foreign_key_violation", 0)
          /\ UNCHANGED <<db, tx, pc, req, res, txStart, nextId, nextEdge, now>>

\* Queries.CreateRelationship on the pool: one INSERT, committed on its own.
\* The table's constraints (the two REFERENCES mp_res) are all that is checked.
CreateRelationship(source, target, relType) ==
  LET row == CreateRelationshipRow(nextEdge, source, target, relType, "")
  IN IF PrimaryKeyOk(db, "mp_relationship", row)
        /\ ForeignKeysOk(db, "mp_relationship", row)
     THEN /\ nextEdge <= MaxEdges
          /\ db' = [db EXCEPT !["mp_relationship"] = @ \cup {row}]
          /\ nextEdge' = nextEdge + 1
          /\ last' = Response("CreateRelationship", "ok", nextEdge,
                              source, target, relType, {})
          /\ UNCHANGED <<tx, pc, req, res, txStart, nextId, now>>
     ELSE /\ last' = Reply("CreateRelationship", "foreign_key_violation", 0)
          /\ UNCHANGED <<db, tx, pc, req, res, txStart, nextId, nextEdge, now>>

\* DeleteRelationship(id): removes the edge; NotFound when it is absent.
DeleteRelationship(id) ==
  IF \E e \in db["mp_relationship"] : e.id = id
  THEN /\ db' = DeleteCascade(db, "mp_relationship", {id})
       /\ last' = Response("DeleteRelationship", "ok", id, 0, 0, "",
                           RemovedFrom(db, db'))
       /\ UNCHANGED <<tx, pc, req, res, txStart, nextId, nextEdge, now>>
  ELSE /\ last' = Reply("DeleteRelationship", "NotFound", id)
       /\ UNCHANGED <<db, tx, pc, req, res, txStart, nextId, nextEdge, now>>

\* DeleteEntity(id): DELETE FROM mp_res WHERE id = $1; the layer rows and the
\* edges go with it by the schema's cascades.
DeleteEntity(id) ==
  /\ db' = DeleteCascade(db, "mp_res", {id})
  /\ last' = Response("DeleteEntity", "ok", id, 0, 0, "", RemovedFrom(db, db'))
  /\ UNCHANGED <<tx, pc, req, res, txStart, nextId, nextEdge, now>>

\* ------------------------------------------------------------------- spec
Next ==
  \/ \E p \in Procs : CreatePersonBegin(p)
  \/ \E p \in Procs : CreatePersonRes(p)
  \/ \E p \in Procs : CreatePersonAgent(p)
  \/ \E p \in Procs : CreatePersonPerson(p)
  \/ \E p \in Procs : CreatePersonCommit(p)
  \/ \E p \in Procs : CreateWorkBegin(p)
  \/ \E p \in Procs : CreateWorkRes(p)
  \/ \E p \in Procs : CreateWorkWork(p)
  \/ \E p \in Procs : CreateWorkCommit(p)
  \/ \E a \in Ids, b \in Ids, r \in RelInputs : CreateRelationship(a, b, r)
  \/ \E id \in EdgeIds : DeleteRelationship(id)
  \/ \E id \in Ids : DeleteEntity(id)
  \/ \E kind \in KindInputs : ServeUnrouted(kind)

Spec == Init /\ [][Next]_vars

\* ------------------------------------------------ the handlers on their own
\* The create handlers of main.go running concurrently, with entity deletes,
\* and no relationship traffic: mp_relationship stays empty, so the store is
\* the root table and the layer tables only.
NextHandlers ==
  \/ \E p \in Procs : CreatePersonBegin(p)
  \/ \E p \in Procs : CreatePersonRes(p)
  \/ \E p \in Procs : CreatePersonAgent(p)
  \/ \E p \in Procs : CreatePersonPerson(p)
  \/ \E p \in Procs : CreatePersonCommit(p)
  \/ \E p \in Procs : CreateWorkBegin(p)
  \/ \E p \in Procs : CreateWorkRes(p)
  \/ \E p \in Procs : CreateWorkWork(p)
  \/ \E p \in Procs : CreateWorkCommit(p)
  \/ \E id \in Ids : DeleteEntity(id)
  \/ \E kind \in KindInputs : ServeUnrouted(kind)

SpecHandlers == Init /\ [][NextHandlers]_vars

\* ------------------------------------------------- the handlers in time
\* now(): the clock the column default created_at DEFAULT now() reads; it is
\* the start time of the inserting transaction. Two transactions begun
\* between two advances of the clock read the same value.
Tick ==
  /\ now < MaxTime
  /\ now' = now + 1
  /\ UNCHANGED <<db, tx, pc, req, res, txStart, nextId, nextEdge, last>>

NextClock ==
  \/ NextHandlers
  \/ Tick

SpecClock == Init /\ [][NextClock]_vars

\* ------------------------------------------------- the schema on its own
\* The schema has layer tables for all 21 kinds; the Go handlers write persons
\* and works only. SpecSchema starts from any store of whole entities of any
\* kinds (the root row and the layer rows of the kind, as one CreateEntity
\* leaves them) and runs the deletes against it.

\* The row of table t of a whole entity `id` of kind `kind`.
SchemaRow(t, id, kind) ==
  CASE t = "mp_res" -> CreateResRow(id, kind, <<>>, 0)
    [] t = "mp_agent" -> CreateAgentRow(id, CHOOSE r \in PersonRequests : TRUE)
    [] t = "mp_person" -> CreatePersonRow(id, CHOOSE r \in PersonRequests : TRUE)
    [] t = "mp_work" -> CreateWorkRow(id, CHOOSE r \in WorkRequests : TRUE)
    [] OTHER -> [id |-> id]

\* kinds[id] is the kind of entity id, or "absent".
SchemaStore(kinds) ==
  [t \in Tables |->
     {SchemaRow(t, id, kinds[id]) :
        id \in {i \in DOMAIN kinds :
                  kinds[i] # "absent" /\ t \in {"mp_res"} \cup
                     {LayersFor(kinds[i])[n] : n \in 1..Len(LayersFor(kinds[i]))}}}]

InitSchema ==
  /\ \E kinds \in [Ids -> EntityTypes \cup {"absent"}] : db = SchemaStore(kinds)
  /\ tx = [p \in Procs |-> EmptyStore]
  /\ pc = [p \in Procs |-> "idle"]
  /\ req = [p \in Procs |-> NoRequest]
  /\ res = [p \in Procs |-> 0]
  /\ txStart = [p \in Procs |-> 0]
  /\ nextId = MaxIds + 1
  /\ nextEdge = 1
  /\ now = 0
  /\ last = Reply("none", "", 0)

NextSchema ==
  \/ \E id \in Ids : DeleteEntity(id)

SpecSchema == InitSchema /\ [][NextSchema]_vars

\* ------------------------------------------------- the graph on its own
\* The relationship operations and the entity delete over every committed
\* store of whole persons and works the create handlers can leave, with no
\* create in flight.
InitGraph ==
  /\ \E kinds \in [Ids -> {"person", "work", "absent"}] :
        db = SchemaStore(kinds)
  /\ tx = [p \in Procs |-> EmptyStore]
  /\ pc = [p \in Procs |-> "idle"]
  /\ req = [p \in Procs |-> NoRequest]
  /\ res = [p \in Procs |-> 0]
  /\ txStart = [p \in Procs |-> 0]
  /\ nextId = MaxIds + 1
  /\ nextEdge = 1
  /\ now = 0
  /\ last = Reply("none", "", 0)

NextGraph ==
  \/ \E a \in Ids, b \in Ids, r \in RelInputs : CreateRelationship(a, b, r)
  \/ \E id \in EdgeIds : DeleteRelationship(id)
  \/ \E id \in Ids : DeleteEntity(id)

SpecGraph == InitGraph /\ [][NextGraph]_vars

\* ------------------------------------------------ deletes of layer rows
\* DELETE FROM <layer table> WHERE id = $1: the row goes and, through the
\* references to the layer table, the rows of the more specialized layers.
DeleteLayerRow(t, id) ==
  /\ db' = DeleteCascade(db, t, {id})
  /\ last' = Response("DeleteLayerRow", "ok", id, 0, 0, "", RemovedFrom(db, db'))
  /\ UNCHANGED <<tx, pc, req, res, txStart, nextId, nextEdge, now>>

\* The kinds of the two-level families: agents and digital resources.
FamilyKinds ==
  {k \in EntityTypes : IsA(k, "agent") \/ IsA(k, "digital_resource")}

InitLayers ==
  /\ \E kinds \in [Ids -> FamilyKinds \cup {"absent"}] : db = SchemaStore(kinds)
  /\ tx = [p \in Procs |-> EmptyStore]
  /\ pc = [p \in Procs |-> "idle"]
  /\ req = [p \in Procs |-> NoRequest]
  /\ res = [p \in Procs |-> 0]
  /\ txStart = [p \in Procs |-> 0]
  /\ nextId = MaxIds + 1
  /\ nextEdge = 1
  /\ now = 0
  /\ last = Reply("none", "", 0)

\* The layer tables that hold rows of these kinds.
FamilyTables == UNION {{t \in LayerTables : KindOfTable(t) = k} : k \in FamilyKinds}

NextLayers ==
  \/ \E t \in FamilyTables, id \in Ids : DeleteLayerRow(t, id)
  \/ \E id \in Ids : DeleteEntity(id)

SpecLayers == InitLayers /\ [][NextLayers]_vars

\* ------------------------------------------------- updates of attributes
\* update_modified_column(): NEW.updated_at = now(); RETURN NEW.
update_modified_column(new, at) == [new EXCEPT !.updated_at = TimeAt(at)]

\* The tables with a BEFORE UPDATE ... FOR EACH ROW trigger running
\* update_modified_column(): update_mp_res_modtime ON mp_res is the only one.
UpdateTriggers == {"mp_res"}

\* UPDATE t SET col = val WHERE id = $1, run at time `at`.
UpdateRows(store, t, id, col, val, at) ==
  [store EXCEPT ![t] =
     {IF r.id # id THEN r
      ELSE IF t \in UpdateTriggers
           THEN update_modified_column([r EXCEPT ![col] = val], at)
           ELSE [r EXCEPT ![col] = val] : r \in @}]

\* The attribute updates callers issue: the notes of the root row, the
\* category of a work, the profession of a person.
UpdateInputs ==
  {[table |-> "mp_res", column |-> "note", value |-> <<"n3">>],
   [table |-> "mp_work", column |-> "category", value |-> <<"novel">>],
   [table |-> "mp_person", column |-> "profession", value |-> <<"writer">>]}

\* One attribute of entity id is updated.
UpdateAttribute(id, u) ==
  /\ \E r \in db[u.table] : r.id = id
  /\ db' = UpdateRows(db, u.table, id, u.column, u.value, now)
  /\ last' = Reply("UpdateAttribute", "ok", id)
  /\ UNCHANGED <<tx, pc, req, res, txStart, nextId, nextEdge, now>>

NextUpdate ==
  \/ \E id \in Ids, u \in UpdateInputs : UpdateAttribute(id, u)
  \/ Tick

SpecUpdate == InitGraph /\ [][NextUpdate]_vars

\* ------------------------------------------ insert and delete in a race
\* CreateRelationship and the delete of an endpoint as two concurrent
\* autocommit statements, at the grain of the row locks the references take.
\* The INSERT's foreign-key check reads each referenced mp_res row FOR KEY
\* SHARE and holds that lock until the statement commits; a DELETE of an
\* mp_res row needs the row exclusively and holds it until its cascade has
\* run and the statement commits. Each waits for the other's commit.

\* The mp_res identities key-share locked by insert statements in flight.
KeyShared ==
  UNION {{e.source_id, e.target_id} :
           e \in UNION {tx[q]["mp_relationship"] : q \in Procs}}

\* The mp_res identities locked by delete statements in flight.
DeleteLocked == {res[q] : q \in {x \in Procs : pc[x] = "de_locked"}}

\* Mutant: the foreign-key check is a plain read: it takes no lock and does
\* not wait for a delete in flight.
CreateRelationshipCheckNoWait(p, source, target, relType) ==
  LET row == CreateRelationshipRow(nextEdge, source, target, relType, "")
  IN /\ pc[p] = "idle"
     /\ IF PrimaryKeyOk(db, "mp_relationship", row)
           /\ ForeignKeysOk(db, "mp_relationship", row)
        THEN /\ nextEdge <= MaxEdges
             /\ tx' = [tx EXCEPT ![p]["mp_relationship"] = {row}]
             /\ pc' = [pc EXCEPT ![p] = "cr_checked"]
             /\ nextEdge' = nextEdge + 1
             /\ UNCHANGED <<db, req, res, txStart, nextId, now, last>>
        ELSE /\ last' = Reply("CreateRelationship", "foreign_key_violation", 0)
             /\ UNCHANGED <<db, tx, pc, req, res, txStart, nextId, nextEdge, now>>

\* The INSERT of CreateRelationship up to the end of its foreign-key check:
\* it waits while an endpoint is locked by a delete, fails when an endpoint is
\* not a committed row, and otherwise holds the row pending with both
\* endpoints key-share locked.
CreateRelationshipCheck(p, source, target, relType) ==
  LET row == CreateRelationshipRow(nextEdge, source, target, relType, "")
  IN /\ pc[p] = "idle"
     /\ {source, target} \cap DeleteLocked = {}
     /\ IF PrimaryKeyOk(db, "mp_relationship", row)
           /\ ForeignKeysOk(db, "mp_relationship", row)
        THEN /\ nextEdge <= MaxEdges
             /\ tx' = [tx EXCEPT ![p]["mp_relationship"] = {row}]
             /\ pc' = [pc EXCEPT ![p] = "cr_checked"]
             /\ nextEdge' = nextEdge + 1
             /\ UNCHANGED <<db, req, res, txStart, nextId, now, last>>
        ELSE /\ last' = Reply("CreateRelationship", "foreign_key_violation", 0)
             /\ UNCHANGED <<db, tx, pc, req, res, txStart, nextId, nextEdge, now>>

\* The INSERT commits: the edge is stored and the locks are released.
CreateRelationshipCommit(p) ==
  /\ pc[p] = "cr_checked"
  /\ db' = Commit(db, tx[p])
  /\ last' = Reply("CreateRelationship", "ok",
                   (CHOOSE e \in tx[p]["mp_relationship"] : TRUE).id)
  /\ Finish(p)
  /\ UNCHANGED <<nextId, nextEdge, now>>

\* DELETE FROM mp_res WHERE id = $1 up to taking the row: it waits while an
\* insert in flight holds the row key-shared or another delete holds it.
DeleteEntityLock(p, id) ==
  /\ pc[p] = "idle"
  /\ \E r \in db["mp_res"] : r.id = id
  /\ id \notin KeyShared \cup DeleteLocked
  /\ pc' = [pc EXCEPT ![p] = "de_locked"]
  /\ res' = [res EXCEPT ![p] = id]
  /\ UNCHANGED <<db, tx, req, txStart, nextId, nextEdge, now, last>>

\* The DELETE runs its cascades over the committed rows and commits.
DeleteEntityCommit(p) ==
  /\ pc[p] = "de_locked"
  /\ db' = DeleteCascade(db, "mp_res", {res[p]})
  /\ last' = Response("DeleteEntity", "ok", res[p], 0, 0, "",
                      RemovedFrom(db, db'))
  /\ Finish(p)
  /\ UNCHANGED <<nextId, nextEdge, now>>

\* The relationship type plays no part in the references or their locks: the
\* inserts of the race are all of type MP_R5.
NextRace ==
  \/ \E p \in Procs, a \in Ids, b \in Ids :
        CreateRelationshipCheck(p, a, b, "MP_R5")
  \/ \E p \in Procs : CreateRelationshipCommit(p)
  \/ \E p \in Procs, id \in Ids : DeleteEntityLock(p, id)
  \/ \E p \in Procs : DeleteEntityCommit(p)

SpecRace == InitGraph /\ [][NextRace]_vars

\* --------------------------------------------- the get handler on its own
\* handleGetPerson applied to every store the schema's constraints admit for
\* persons, works and bare resources: each identity is absent, or has its
\* root row and the first `depth` of its kind's layer rows (the REFERENCES
\* clauses admit a root row without its layers, not a layer without its
\* parent).
StoredLayers(kind, depth) ==
  {"mp_res"} \cup {LayersFor(kind)[n] :
                     n \in {i \in 1..Len(LayersFor(kind)) : i <= depth}}

PartialStore(kinds, depth) ==
  [t \in Tables |->
     {SchemaRow(t, id, kinds[id]) :
        id \in {i \in DOMAIN kinds :
                  kinds[i] # "absent" /\ t \in StoredLayers(kinds[i], depth[i])}}]

InitGet ==
  /\ \E kinds \in [Ids -> {"person", "work", "res", "absent"}],
        depth \in [Ids -> 0..2] : db = PartialStore(kinds, depth)
  /\ tx = [p \in Procs |-> EmptyStore]
  /\ pc = [p \in Procs |-> "idle"]
  /\ req = [p \in Procs |-> NoRequest]
  /\ res = [p \in Procs |-> 0]
  /\ txStart = [p \in Procs |-> 0]
  /\ nextId = MaxIds + 1
  /\ nextEdge = 1
  /\ now = 0
  /\ last = Reply("none", "", 0)

\* GET /api/person/{id}: the handler's answer, recorded as the last response.
GetPersonRequest(id) ==
  /\ last' = Reply("handleGetPerson", HandleGetPerson(db, id).status, id)
  /\ UNCHANGED <<db, tx, pc, req, res, txStart, nextId, nextEdge, now>>

NextGet ==
  \/ \E id \in Ids : GetPersonRequest(id)

SpecGet == InitGet /\ [][NextGet]_vars

\* ================================================================ claims
\* The tables (edge table aside) holding a row keyed by id.
TablesHolding(store, id) ==
  {t \in Tables \ {"mp_relationship"} : \E r \in store[t] : r.id = id}

\* The root table and the layer tables of a kind.
TablesFor(kind) ==
  {"mp_res"} \cup {LayersFor(kind)[i] : i \in 1..Len(LayersFor(kind))}

\* The kind recorded in the root row of id.
KindOf(store, id) == (CHOOSE r \in store["mp_res"] : r.id = id).entity_type

\* The kind a create handler at position pc[p] is creating.
KindAt(label) ==
  IF label \in {"cp_begun", "cp_res", "cp_agent", "cp_person"}
  THEN "person" ELSE "work"

\* C1: CreateEntity is all-or-nothing. While a create handler's transaction is
\* open the committed store holds no row of its entity; when the handler
\* returns 201 the root row and every layer row of the kind are committed, and
\* when it returns on any failing insert or failing commit the committed store
\* is unchanged and holds no row of the entity.
C1_AllOrNothing ==
  /\ [](\A p \in Procs : res[p] # 0 => TablesHolding(db, res[p]) = {})
  /\ [][\A p \in Procs :
          (pc[p] # "idle" /\ pc'[p] = "idle") =>
             IF last'.status = "201"
             THEN /\ TablesHolding(db', res[p]) = TablesFor(KindAt(pc[p]))
                  /\ KindOf(db', res[p]) = KindAt(pc[p])
             ELSE /\ db' = db
                  /\ res[p] # 0 => TablesHolding(db', res[p]) = {}]_vars

\* A create failed after its root insert and nothing of it is committed.
C1_Witness ==
  /\ last.op \in {"handleCreatePerson", "handleCreateWork"}
  /\ last.status = "500"
  /\ last.id # 0
  /\ TablesHolding(db, last.id) = {}

\* C2 (invariant I4): the kinds of the endpoints of every stored edge match
\* the pair permitted for the edge's relationship type.
C2_EdgeKindsMatch ==
  \A e \in db["mp_relationship"] :
     /\ IsA(KindOf(db, e.source_id), AllowedEndpointKinds[e.rel_type][1])
     /\ IsA(KindOf(db, e.target_id), AllowedEndpointKinds[e.rel_type][2])

\* One store satisfies I1: every layer row has a root row of a kind consistent
\* with the layer, and a second-level layer row has its parent layer row.
LayerInvariant(store) ==
  \A t \in LayerTables : \A r \in store[t] :
     /\ \E root \in store["mp_res"] :
           root.id = r.id /\ IsA(root.entity_type, KindOfTable(t))
     /\ \E q \in store[ParentTable(t)] : q.id = r.id

\* C3 (invariant I1): in the committed store, and in the store as every open
\* transaction sees it, a layer row exists only with a root row of a
\* consistent kind and with its parent layer row.
C3_LayerRequiresRoot ==
  /\ LayerInvariant(db)
  /\ \A p \in Procs : LayerInvariant(Union(db, tx[p]))

\* A person is committed: root, agent layer and person layer.
C3_Witness ==
  \E r \in db["mp_person"] : TablesHolding(db, r.id) = TablesFor("person")

\* Every entity a reader of the committed store can see is whole: any id with
\* a row in some table has exactly the root row and the layer rows of its kind.
Whole(store) ==
  \A t \in Tables \ {"mp_relationship"} : \A r \in store[t] :
     /\ \E root \in store["mp_res"] : root.id = r.id
     /\ TablesHolding(store, r.id) = TablesFor(KindOf(store, r.id))

\* C6: whatever the interleaving of create transactions with reads, a read
\* (ListRes, GetPerson, GetWork, ListPeople, ListWorks) never sees a root row
\* without all its layer rows nor any proper subset of an entity's rows: each
\* row ListRes returns is returned, hydrated, by the query of its kind.
C6_NoPartialEntityVisible ==
  /\ Whole(db)
  /\ \A r \in ListRes(db) :
        /\ r.entity_type = "person" => HandleGetPerson(db, r.id).status = "200"
        /\ r.entity_type = "work" => GetWork(db, r.id) # {}
  /\ {x.id : x \in ListPeople(db)} =
        {r.id : r \in {y \in ListRes(db) : y.entity_type = "person"}}
  /\ {x.id : x \in ListWorks(db)} =
        {r.id : r \in {y \in ListRes(db) : y.entity_type = "work"}}

\* A transaction holds a root row whose layers are not all inserted yet while
\* another entity is committed and readable.
C6_Witness ==
  /\ \E p \in Procs : pc[p] \in {"cp_res", "cp_agent", "cw_res"}
  /\ ListRes(db) # {}

\* C4 (invariant I2): after DeleteEntity(X) no table holds a row keyed by X,
\* at any level of the hierarchy.
C4_DeleteRemovesEveryLayer ==
  last.op = "DeleteEntity" => TablesHolding(db, last.id) = {}

\* An image was deleted: its root row, its digital-resource row and its image
\* row all went in the one delete.
C4_Witness ==
  /\ last.op = "DeleteEntity"
  /\ {"mp_res", "mp_digital_resource", "mp_image"} \subseteq last.removed

\* C5 (invariant I3): the source and the target of every stored edge are
\* identities of existing root rows.
C5_EdgeEndpointsExist ==
  \A e \in db["mp_relationship"] :
     /\ \E r \in db["mp_res"] : r.id = e.source_id
     /\ \E r \in db["mp_res"] : r.id = e.target_id

\* An entity with edges was deleted, and an edge is still stored.
C5_Witness ==
  /\ last.op = "DeleteEntity"
  /\ "mp_relationship" \in last.removed
  /\ db["mp_relationship"] # {}

\* C7: after DeleteEntity(id), reading id finds nothing (handleGetPerson
\* answers 404, GetWork returns no row) and no traversal, from any anchor in
\* either direction, returns id or starts from an edge of id.
C7_DeletedIsUnreachable ==
  last.op = "DeleteEntity" =>
     /\ HandleGetPerson(db, last.id).status = "404"
     /\ GetWork(db, last.id) = {}
     /\ GetWorksByCreator(db, last.id) = {}
     /\ \A anchor \in Ids : \A x \in GetWorksByCreator(db, anchor) :
           x.row.id # last.id
     /\ \A r \in RelationshipTypes : \A d \in {"outbound", "inbound"} :
           /\ Traverse(db, last.id, r, d) = {}
           /\ \A anchor \in Ids : last.id \notin Traverse(db, anchor, r, d)

\* The deleted entity had at least one edge.
C7_Witness ==
  /\ last.op = "DeleteEntity"
  /\ {"mp_res", "mp_relationship"} \subseteq last.removed

\* C8: when a create handler answers 201 for kind K, the Get query of K on the
\* returned id yields exactly one record, of kind K, whose notes and layer
\* attributes are the ones of the request (the JSONB attribute as the JSON
\* value supplied).
C8_CreateThenGet ==
  [][\A p \in Procs :
       (pc[p] # "idle" /\ pc'[p] = "idle" /\ last'.status = "201") =>
          /\ last'.id = res[p]
          /\ IF KindAt(pc[p]) = "person"
             THEN /\ HandleGetPerson(db', res[p]).status = "200"
                  /\ Cardinality(GetPerson(db', res[p])) = 1
                  /\ \A row \in GetPerson(db', res[p]) :
                        /\ row.id = res[p]
                        /\ row.entity_type = "person"
                        /\ row.note = req[p].note
                        /\ row.contact_info = req[p].contact_info
                        /\ row.field_of_activity = req[p].field_of_activity
                        /\ row.language = req[p].language
                        /\ row.profession = req[p].profession
             ELSE /\ Cardinality(GetWork(db', res[p])) = 1
                  /\ \A row \in GetWork(db', res[p]) :
                        /\ row.id = res[p]
                        /\ row.entity_type = "work"
                        /\ row.note = req[p].note
                        /\ row.category = req[p].category
                        /\ JsonValue(row.representative_attributes) =
                              JsonValue(req[p].representative_attributes)]_vars

\* A person was created and can be read back while a work is stored too.
C8_Witness ==
  /\ last.op = "handleCreatePerson"
  /\ last.status = "201"
  /\ GetPerson(db, last.id) # {}
  /\ ListWorks(db) # {}

\* C9: after a successful CreateRelationship(a, b, R), b is among
\* Traverse(a, R, outbound) and a among Traverse(b, R, inbound); for R = MP_R5
\* with a work as source, GetWorksByCreator(b) returns a row for a.
C9_TraverseRoundTrip ==
  (last.op = "CreateRelationship" /\ last.status = "ok") =>
     /\ last.target \in Traverse(db, last.source, last.rel, "outbound")
     /\ last.source \in Traverse(db, last.target, last.rel, "inbound")
     /\ (last.rel = "MP_R5" /\ GetWork(db, last.source) # {}) =>
           \E x \in GetWorksByCreator(db, last.target) :
              x.edge = last.id /\ x.row.id = last.source

\* An edge between two different entities was just created.
C9_Witness ==
  /\ last.op = "CreateRelationship"
  /\ last.status = "ok"
  /\ last.source # last.target

\* C10: with a person P and a work W, after CreateRelationship(W, P, MP_R5) as
\* the only MP_R5 edge into P, Traverse(P, MP_R5, inbound) = {W}; and
\* CreateRelationship(P, W, MP_R5) never succeeds.
C10_CreatedByScenario ==
  (last.op = "CreateRelationship" /\ last.status = "ok" /\ last.rel = "MP_R5") =>
     /\ (/\ KindOf(db, last.source) = "work"
         /\ KindOf(db, last.target) = "person"
         /\ \A e \in db["mp_relationship"] :
               (e.target_id = last.target /\ e.rel_type = "MP_R5") => e.id = last.id)
        => Traverse(db, last.target, "MP_R5", "inbound") = {last.source}
     /\ ~(KindOf(db, last.source) = "person" /\ KindOf(db, last.target) = "work")

\* C11: a CreateRelationship succeeds only when both its endpoints are
\* committed root rows at the moment of the call; a call naming an absent
\* endpoint fails (the INSERT's foreign-key violation, the code's
\* EndpointNotFound) and leaves the edge table, and every other table, as it
\* was.
C11_AbsentEndpointRejected ==
  [][last'.op = "CreateRelationship" =>
       IF last'.status = "ok"
       THEN /\ \E r \in db["mp_res"] : r.id = last'.source
            /\ \E r \in db["mp_res"] : r.id = last'.target
       ELSE /\ last'.status = "foreign_key_violation"
            /\ db' = db]_vars

\* A call was rejected for an absent endpoint while an entity and an edge are
\* stored: the edge is still the only one.
C11_Witness ==
  /\ last.op = "CreateRelationship"
  /\ last.status = "foreign_key_violation"
  /\ db["mp_res"] # {}
  /\ Cardinality(db["mp_relationship"]) = 1

\* C12: a create request for a kind outside mp_entity_type is answered with
\* an error (404 from the mux, the code's UnknownKind) and writes nothing: the
\* committed root and layer tables are unchanged, no transaction gains a
\* pending row, and no identity is drawn.
C12_UnknownKindWritesNothing ==
  [][(\E kind \in KindInputs \ EntityTypes : ServeUnrouted(kind)) =>
       /\ last'.status = "404"
       /\ db' = db
       /\ tx' = tx
       /\ nextId' = nextId]_vars

\* The request for the unknown kind was answered while the store holds an
\* entity and another create is in flight.
C12_Witness ==
  /\ last.op = "ServeMux"
  /\ last.status = "404"
  /\ db["mp_res"] # {}
  /\ \E p \in Procs : tx[p]["mp_res"] # {}

\* C13: reading a person by id answers NotFound (404) when no root row exists
\* for the id, answers a fault distinct from NotFound and from success when
\* the root row of a person exists but its agent or person layer row is
\* missing, and answers 200 with the hydrated person when the entity is whole.
C13_GetDistinguishesCorrupt ==
  last.op = "handleGetPerson" =>
     IF \A r \in db["mp_res"] : r.id # last.id
     THEN last.status = "404"
     ELSE KindOf(db, last.id) = "person" =>
             IF TablesHolding(db, last.id) = TablesFor("person")
             THEN last.status = "200"
             ELSE last.status \notin {"404", "200"}

\* The stored edges with the given source, target and relationship type.
EdgesLike(store, source, target, relType) ==
  {e \in store["mp_relationship"] :
     e.source_id = source /\ e.target_id = target /\ e.rel_type = relType}

\* C14: a CreateRelationship(a, b, R) issued while an edge (a, b, R) is
\* already stored succeeds, returns an identity no stored edge has, keeps
\* every edge that was there and adds one more edge (a, b, R); edge
\* identities are unique throughout.
C14_DuplicateEdgesKept ==
  /\ [](\A e \in db["mp_relationship"] : \A f \in db["mp_relationship"] :
          e.id = f.id => e = f)
  /\ [][\A a \in Ids, b \in Ids, r \in RelInputs :
          (EdgesLike(db, a, b, r) # {} /\ CreateRelationship(a, b, r)) =>
             /\ last'.status = "ok"
             /\ \A e \in db["mp_relationship"] : e.id # last'.id
             /\ db["mp_relationship"] \subseteq db'["mp_relationship"]
             /\ Cardinality(EdgesLike(db', a, b, r)) =
                   Cardinality(EdgesLike(db, a, b, r)) + 1]_vars

\* The same relationship was created twice: two stored edges with equal
\* source, target and type, and different identities.
C14_Witness ==
  /\ last.op = "CreateRelationship"
  /\ last.status = "ok"
  /\ Cardinality(EdgesLike(db, last.source, last.target, last.rel)) = 2

\* C15: DeleteRelationship(id) on a stored edge removes exactly that edge and
\* nothing else; on an id no stored edge has (never created, or deleted
\* before) it fails with NotFound and leaves the store unchanged.
C15_DeleteRelationshipOutcome ==
  [][\A id \in EdgeIds :
       (last'.op = "DeleteRelationship" /\ DeleteRelationship(id)) =>
          IF \E e \in db["mp_relationship"] : e.id = id
          THEN /\ last'.status = "ok"
               /\ db'["mp_relationship"] =
                     {e \in db["mp_relationship"] : e.id # id}
               /\ \A t \in Tables \ {"mp_relationship"} : db'[t] = db[t]
          ELSE /\ last'.status = "NotFound"
               /\ db' = db]_vars

\* The second delete of an edge failed with NotFound while another edge is
\* still stored.
C15_Witness ==
  /\ last.op = "DeleteRelationship"
  /\ last.status = "NotFound"
  /\ last.id < nextEdge
  /\ db["mp_relationship"] # {}

\* C16: a step that creates or deletes a relationship changes nothing but
\* the one edge: the root table and every layer table are as before (so both
\* endpoints keep their rows, attribute for attribute), every other edge is
\* as before, and no open transaction is touched.
C16_EdgeOpsLeaveEndpoints ==
  [][(\/ /\ last'.op = "CreateRelationship"
         /\ \E a \in Ids, b \in Ids, r \in RelInputs :
               CreateRelationship(a, b, r)
      \/ /\ last'.op = "DeleteRelationship"
         /\ \E id \in EdgeIds : DeleteRelationship(id)) =>
        /\ \A t \in Tables \ {"mp_relationship"} : db'[t] = db[t]
        /\ {e \in db'["mp_relationship"] : e.id # last'.id} =
              {e \in db["mp_relationship"] : e.id # last'.id}
        /\ tx' = tx]_vars

\* An edge between two different entities was created next to an edge that
\* was already stored.
C16_Witness ==
  /\ last.op = "CreateRelationship"
  /\ last.status = "ok"
  /\ last.source # last.target
  /\ Cardinality(db["mp_relationship"]) = 2
  /\ Cardinality(db["mp_res"]) = 2

\* The rows a create of kind `kind` with request r, identity id and
\* transaction time `at` stores when it runs alone.
EntityRows(id, kind, r, at) ==
  [t \in Tables |->
     CASE t = "mp_res" -> {CreateResRow(id, kind, r.note, at)}
       [] t = "mp_agent" /\ kind = "person" -> {CreateAgentRow(id, r)}
       [] t = "mp_person" /\ kind = "person" -> {CreatePersonRow(id, r)}
       [] t = "mp_work" /\ kind = "work" -> {CreateWorkRow(id, r)}
       [] OTHER -> {}]

\* C17: two create handlers running concurrently never hold the same
\* identity, and the identity each holds is fresh; a step of one handler
\* (an insert, its commit, its failure and rollback) leaves the other's
\* transaction, position, request and identity as they were; a commit adds to
\* the committed store exactly the rows that create stores when it runs
\* alone, and a failure adds nothing, so the committed store is the one the
\* successful creates give when run one after another in commit order.
C17_ConcurrentCreatesIndependent ==
  /\ [](\A p \in Procs :
          res[p] # 0 =>
             /\ res[p] < nextId
             /\ \A q \in Procs \ {p} : res[q] # res[p]
             /\ \A r \in db["mp_res"] : r.id # res[p])
  /\ [][\A p \in Procs :
          pc'[p] # pc[p] =>
             /\ \A q \in Procs \ {p} :
                   /\ tx'[q] = tx[q]
                   /\ pc'[q] = pc[q]
                   /\ req'[q] = req[q]
                   /\ res'[q] = res[q]
             /\ pc'[p] = "idle" =>
                   IF last'.status = "201"
                   THEN db' = Union(db, EntityRows(res[p], KindAt(pc[p]),
                                                   req[p], txStart[p]))
                   ELSE db' = db]_vars

\* One create failed after its root insert while the other, holding its own
\* identity and pending rows, is still in flight.
C17_Witness ==
  /\ last.status = "500"
  /\ last.id # 0
  /\ \E q \in Procs :
        /\ res[q] \notin {0, last.id}
        /\ tx[q]["mp_res"] # {}

\* C18: a CreateRelationship whose source and target are the same entity
\* succeeds only when the pair allowed for the relationship type admits the
\* entity's kind at both ends (MP_R18, Work has part Work, on a work); for any
\* other type no self-edge is written.
C18_SelfEdgeOnlyWhenAllowed ==
  (last.op = "CreateRelationship" /\ last.status = "ok"
     /\ last.source = last.target) =>
     /\ IsA(KindOf(db, last.source), AllowedEndpointKinds[last.rel][1])
     /\ IsA(KindOf(db, last.target), AllowedEndpointKinds[last.rel][2])

\* The rows of equal creation time in sequence s follow their ids, in the
\* direction dir.
TiesById(s, dir) ==
  \A i \in DOMAIN s : \A j \in DOMAIN s :
     (i < j /\ s[i].created_at.Time = s[j].created_at.Time) =>
        IF dir = "asc" THEN s[i].id < s[j].id ELSE s[i].id > s[j].id

\* A sequence of result rows lists exactly the entities of the kind, later
\* creation time first.
ListsKind(s, store, kind) ==
  /\ {s[i].id : i \in DOMAIN s} =
        {r.id : r \in {x \in store["mp_res"] : x.entity_type = kind}}
  /\ \A i \in DOMAIN s : \A j \in DOMAIN s :
        i < j => s[i].created_at.Time >= s[j].created_at.Time

\* C19: on every committed store, a listing of a kind holds exactly the
\* entities of that kind, each once, later creation time first, with rows of
\* equal creation time ordered by id in one fixed direction; so any two
\* listings of the same store are the same sequence (and a walk through it by
\* the (created_at, id) cursor meets every entity once).
C19_ListOrderDetermined ==
  /\ \A s \in ListPeopleResults(db) : ListsKind(s, db, "person")
  /\ \A s \in ListWorksResults(db) : ListsKind(s, db, "work")
  /\ \E dir \in {"asc", "desc"} :
        \A s \in ListPeopleResults(db) \cup ListWorksResults(db) :
           TiesById(s, dir)
  /\ \A s \in ListPeopleResults(db) : \A t \in ListPeopleResults(db) : s = t
  /\ \A s \in ListWorksResults(db) : \A t \in ListWorksResults(db) : s = t

\* The identities with a committed root row.
Living(store) == {r.id : r \in store["mp_res"]}

\* C20: from the commit of its creation to its deletion, an entity's kind
\* never changes and the tables holding a row for it are exactly the root
\* table and the layer tables of its kind: none missing, none of a sibling or
\* unrelated layer, in every committed state and across every step.
C20_LayerMembershipFixed ==
  /\ [](\A id \in Living(db) :
          TablesHolding(db, id) = TablesFor(KindOf(db, id)))
  /\ [][\A id \in Living(db) \cap Living(db') :
          /\ KindOf(db', id) = KindOf(db, id)
          /\ TablesHolding(db', id) = TablesHolding(db, id)]_vars
  /\ [][\A id \in Living(db) \ Living(db') : TablesHolding(db', id) = {}]_vars

\* One entity was deleted and another, created before, lives on with the
\* root row and the layer rows of its kind.
C20_Witness ==
  /\ last.op = "DeleteEntity"
  /\ "mp_res" \in last.removed
  /\ \E id \in Living(db) : TablesHolding(db, id) = TablesFor(KindOf(db, id))

\* The tables a create handler at position `label` has inserted into, in
\* order.
InsertedAt(label) ==
  CASE label = "cp_res" -> <<"mp_res">>
    [] label = "cp_agent" -> <<"mp_res", "mp_agent">>
    [] label = "cp_person" -> <<"mp_res", "mp_agent", "mp_person">>
    [] label = "cw_res" -> <<"mp_res">>
    [] label = "cw_work" -> <<"mp_res", "mp_work">>
    [] OTHER -> <<>>

\* C21: in one create transaction the root row is the first insert and gives
\* the identity; each layer row inserted afterwards is keyed by that identity
\* and its parent's row is already pending in the same transaction; at every
\* position of the handler the transaction holds the root row and a prefix of
\* the kind's layers, least specialized first, so the next insert is never
\* attempted ahead of its parent.
C21_ParentFirstInserts ==
  /\ [](\A p \in Procs :
          /\ {t \in Tables : tx[p][t] # {}} =
                {InsertedAt(pc[p])[i] : i \in 1..Len(InsertedAt(pc[p]))}
          /\ \A i \in 1..Len(InsertedAt(pc[p])) :
                /\ i > 1 => InsertedAt(pc[p])[i] =
                               LayersFor(KindAt(pc[p]))[i - 1]
                /\ \A row \in tx[p][InsertedAt(pc[p])[i]] : row.id = res[p])
  /\ [][\A p \in Procs : \A t \in Tables :
          \A row \in tx'[p][t] \ tx[p][t] :
             IF t = "mp_res"
             THEN tx[p] = EmptyStore /\ row.id = res'[p]
             ELSE /\ row.id = res[p]
                  /\ \E q \in tx[p][ParentTable(t)] : q.id = row.id]_vars

\* A person's agent row is pending on top of its root row, the person row
\* not yet inserted.
C21_Witness ==
  \E p \in Procs :
     /\ pc[p] = "cp_agent"
     /\ \E a \in tx[p]["mp_agent"] : \E r \in tx[p]["mp_res"] : a.id = r.id
     /\ tx[p]["mp_person"] = {}

\* C22: with an insert of an edge and a delete of one of its endpoints in
\* flight together, in any order of their steps, every committed state has
\* each stored edge's source and target among the committed root rows; no
\* edge outlives an endpoint.
C22_NoEdgeOutlivesEndpoint ==
  \A e \in db["mp_relationship"] :
     {e.source_id, e.target_id} \subseteq {r.id : r \in db["mp_res"]}

\* An insert and a delete are in flight together: the insert holds its
\* endpoints key-shared, the delete holds another entity that has a stored
\* edge for its cascade to remove.
C22_Witness ==
  \E p \in Procs, q \in Procs :
     /\ pc[p] = "cr_checked"
     /\ pc[q] = "de_locked"
     /\ \E e \in db["mp_relationship"] : res[q] \in {e.source_id, e.target_id}

\* The layer tables that specialize the agent layer and the digital-resource
\* layer.
ChildLayers ==
  [t \in {"mp_agent", "mp_digital_resource"} |->
     IF t = "mp_agent" THEN {"mp_person", "mp_collective_agent"}
     ELSE {"mp_image", "mp_link", "mp_rss_feed", "mp_file"}]

\* C23: no state has a person or collective-agent row without the agent row
\* of the same identity, nor an image, link, rss-feed or file row without its
\* digital-resource row; and the step that removes an agent (or
\* digital-resource) row of X leaves no row of X in the more specialized
\* layers.
C23_NoOrphanChildLayer ==
  /\ [](\A t \in DOMAIN ChildLayers : \A c \in ChildLayers[t] :
          \A r \in db[c] : \E q \in db[t] : q.id = r.id)
  /\ [][\A t \in DOMAIN ChildLayers : \A q \in db[t] \ db'[t] :
          \A c \in ChildLayers[t] : \A r \in db'[c] : r.id # q.id]_vars

\* The agent row of a person was deleted on its own: the person row went in
\* the same step and the root row is still there.
C23_Witness ==
  /\ last.op = "DeleteLayerRow"
  /\ last.removed = {"mp_agent", "mp_person"}
  /\ \E r \in db["mp_res"] : r.id = last.id

\* C24: a created response (201 with the id) leaves a create handler only in
\* the step that commits its transaction: the id is the one its root insert
\* returned, the id was not committed before, and after the step the root row
\* and every layer row the transaction held are in the committed store; a
\* handler that returns without having committed its entity answers 400 or
\* 500, never 201.
C24_CreatedOnlyAfterCommit ==
  [][
      /\ (last' # last /\ last'.status = "201") =>
          \E p \in Procs :
             /\ pc[p] \in {"cp_person", "cw_work"} /\ pc'[p] = "idle"
             /\ last'.id = res[p] /\ res[p] # 0
             /\ TablesHolding(db, res[p]) = {}
             /\ TablesHolding(tx[p], res[p]) = TablesFor(KindAt(pc[p]))
             /\ \A t \in Tables : tx[p][t] \subseteq db'[t]
             /\ tx'[p] = EmptyStore
      /\ \A p \in Procs :
            (/\ pc[p] # "idle" /\ pc'[p] = "idle"
             /\ TablesHolding(db', res[p]) # TablesFor(KindAt(pc[p]))) =>
                last'.status = "500"
      /\ ((\A p \in Procs : pc[p] = "idle") /\ db' = db /\ last' # last) =>
            last'.status # "201"
    ]_vars

\* A work was answered 201 and is committed with its layer, while the other
\* request's transaction is still open with nothing of it committed.
C24_Witness ==
  /\ last.op = "handleCreateWork"
  /\ last.status = "201"
  /\ TablesHolding(db, last.id) = TablesFor("work")
  /\ \E p \in Procs : res[p] # 0 /\ TablesHolding(db, res[p]) = {}

\* The stored edges that count for agentId: relationship type MP_R5, agentId
\* as target, and a source that has a row in mp_work.
CreatorEdges(store, agentId) ==
  {e \in store["mp_relationship"] :
     /\ e.rel_type = "MP_R5"
     /\ e.target_id = agentId
     /\ \E w \in store["mp_work"] : w.id = e.source_id}

\* C25: for every agentId, GetWorksByCreator returns exactly one row per
\* stored MP_R5 edge whose target is agentId and whose source has a work row,
\* that row being the source's; edges of another type, with another target,
\* or with agentId as source only, add nothing; a work with n such edges
\* appears n times.
C25_OneRowPerCreatorEdge ==
  \A agentId \in Ids :
     /\ {x.edge : x \in GetWorksByCreator(db, agentId)} =
           {e.id : e \in CreatorEdges(db, agentId)}
     /\ \A x \in GetWorksByCreator(db, agentId) :
           \E e \in CreatorEdges(db, agentId) :
              e.id = x.edge /\ x.row.id = e.source_id
     /\ \A w \in Ids :
           Cardinality({x \in GetWorksByCreator(db, agentId) : x.row.id = w}) =
             Cardinality({e \in CreatorEdges(db, agentId) : e.source_id = w})

\* A work is linked to a person by two MP_R5 edges and the query on the
\* person returns the work twice, while the query on the work, the source of
\* both edges, returns nothing.
C25_Witness ==
  \E a \in Ids, w \in Ids :
     /\ a # w
     /\ Cardinality(EdgesLike(db, w, a, "MP_R5")) = 2
     /\ Cardinality(GetWorksByCreator(db, a)) = 2
     /\ GetWorksByCreator(db, w) = {}

\* The updated_at of the root row of id.
UpdatedAt(store, id) == (CHOOSE r \in store["mp_res"] : r.id = id).updated_at

====
